---- MODULE Spec2Model ----
(***************************************************************************)
(* Neural Process criterion (loss + metric reducer) and encoder modules    *)
(* of ANP4NLG, as state machines.                                          *)
(*                                                                         *)
(* Numbers.  The loss is a real number built from logarithms.  Every value *)
(* the model handles lies in Q[ln 2, 1/ln 2]: logits are integer multiples *)
(* of ln 2 (so every class weight is a power of two) and the scale of a    *)
(* Normal latent is a power of two.  A quantity is kept exactly as three   *)
(* rational coefficients  inv/ln2 + one + ln2*(ln 2); ln 2 is              *)
(* transcendental, so two quantities are equal as reals iff their          *)
(* coefficients are equal.  Floating-point rounding is not modelled.       *)
(***************************************************************************)
EXTENDS Integers, Sequences, FiniteSets, TLC

VARIABLES
    model_out,        \* what model(src_tokens) returns for the current sample
    sample,           \* the current sample (target, ntokens, nsentences)
    result,           \* what the last forward call returned, or NoValue
    logging_outputs,  \* the logging records handed to reduce_metrics
    scalars,          \* the metrics.log_scalar calls of the last reduction
    encoder,          \* the constructed encoder module, or NoValue
    enc_call          \* the last encoder forward call: inputs and outcome

vars == <<model_out, sample, result, logging_outputs, scalars, encoder, enc_call>>

\* Python's None, and a value that is present
None == <<>>
Some(v) == <<v>>
NoResult == [status |-> "none"]

-----------------------------------------------------------------------------
(* Bounds of the model *)

MaxBatch == 2
MaxLogs == 2
MaxDim == 2

-----------------------------------------------------------------------------
(* Exact rationals <<n, d>>, d > 0, in lowest terms *)

Abs(n) == IF n < 0 THEN -n ELSE n

RECURSIVE GCD(_, _)
GCD(a, b) == IF b = 0 THEN a ELSE GCD(b, a % b)

Rat(n, d) ==
    LET s == IF d < 0 THEN -1 ELSE 1
        g == GCD(Abs(n), Abs(d))
    IN  <<(s * n) \div g, (s * d) \div g>>

RZero == <<0, 1>>
RInt(n) == <<n, 1>>
RAdd(a, b) == Rat(a[1] * b[2] + b[1] * a[2], a[2] * b[2])
RNeg(a) == <<-a[1], a[2]>>
RDivInt(a, k) == Rat(a[1], a[2] * k)

(* Quantities: inv/ln2 + one + ln2*ln(2) *)
Qty(i, o, l) == [inv |-> i, one |-> o, ln2 |-> l]
QZero == Qty(RZero, RZero, RZero)
QAdd(a, b) == Qty(RAdd(a.inv, b.inv), RAdd(a.one, b.one), RAdd(a.ln2, b.ln2))
QNeg(a) == Qty(RNeg(a.inv), RNeg(a.one), RNeg(a.ln2))
QDivInt(a, k) == Qty(RDivInt(a.inv, k), RDivInt(a.one, k), RDivInt(a.ln2, k))
\* a / math.log(2): every coefficient moves one power of ln 2 down.  Only
\* quantities without a 1/ln2 part (nats) are ever converted.
QDivLn2(a) == Qty(a.one, a.ln2, RZero)

RECURSIVE QSumFrom(_, _)
QSumFrom(acc, s) == IF s = <<>> THEN acc ELSE QSumFrom(QAdd(acc, Head(s)), Tail(s))
\* sum(...) of Python and Tensor.sum: a left fold from 0
QSum(s) == QSumFrom(QZero, s)
\* Tensor.mean over a non-empty axis
QMean(s) == QDivInt(QSum(s), Len(s))

RECURSIVE Pow(_, _)
Pow(b, e) == IF e = 0 THEN 1 ELSE b * Pow(b, e - 1)

RECURSIVE IntSum(_)
IntSum(s) == IF s = <<>> THEN 0 ELSE Head(s) + IntSum(Tail(s))

\* log2 of an exact power of two
Log2(n) == CHOOSE e \in 0..n : Pow(2, e) = n

-----------------------------------------------------------------------------
(* torch.distributions, on the values the model draws *)

\* A Normal latent with loc in Z and scale 2^k
Normal(loc, k) == [loc |-> loc, k |-> k]

\* Categorical(logits=l).log_prob(y), l given in units of ln 2:
\* l[y] - logsumexp(l), exact when the class weights 2^l[j] sum to a power of two
log_prob(logits, y) ==
    LET total == IntSum([j \in 1..Len(logits) |-> Pow(2, logits[j])])
    IN  Qty(RZero, RZero, RInt(logits[y] - Log2(total)))

\* kl_divergence(Normal p, Normal q), one element:
\* 0.5 * (var_ratio + t1 - 1 - log(var_ratio)), var_ratio = (p.scale/q.scale)^2,
\* t1 = ((p.loc - q.loc)/q.scale)^2
kl_normal_normal(p, q) ==
    LET d == p.loc - q.loc
        vq == Pow(4, q.k)
        vp == Pow(4, p.k)
    IN  Qty(RZero, Rat(vp + d * d - vq, 2 * vq), RInt(q.k - p.k))

\* kl_divergence on batched distributions: elementwise, shape (batch, r_dim)
kl_divergence(p, q) ==
    [b \in 1..Len(p) |-> [r \in 1..Len(p[b]) |-> kl_normal_normal(p[b][r], q[b][r])]]

-----------------------------------------------------------------------------
(* NeuralProcessCriterion *)

\* A plausible slip: the operands of kl_divergence in the other order
compute_loss_swapped(p_y_pred, y_target, q_target, q_context) ==
    LET lp == [b \in 1..Len(p_y_pred) |->
                 [t \in 1..Len(p_y_pred[b]) |-> log_prob(p_y_pred[b][t], y_target[b][t])]]
        log_likelihood == QMean([b \in 1..Len(lp) |-> QSum(lp[b])])
        div == kl_divergence(q_context, q_target)
        kl == QMean([b \in 1..Len(div) |-> QSum(div[b])])
    IN  [ll |-> log_likelihood, kl |-> kl]

\* log_prob(y_target).sum(dim=1).mean() and kl_divergence(...).sum(dim=1).mean()
compute_loss(p_y_pred, y_target, q_target, q_context) ==
    LET lp == [b \in 1..Len(p_y_pred) |->
                 [t \in 1..Len(p_y_pred[b]) |-> log_prob(p_y_pred[b][t], y_target[b][t])]]
        log_likelihood == QMean([b \in 1..Len(lp) |-> QSum(lp[b])])
        div == kl_divergence(q_target, q_context)
        kl == QMean([b \in 1..Len(div) |-> QSum(div[b])])
    IN  [ll |-> log_likelihood, kl |-> kl]

\* A plausible slip: an absent q_target replaced by a standard Normal prior
resolve_q_target_prior(q_target, q_context) ==
    IF q_target = None
    THEN [b \in 1..Len(q_context) |-> [r \in 1..Len(q_context[b]) |-> Normal(0, 0)]]
    ELSE q_target[1]

\* q_target = q_context if q_target is None else q_target
resolve_q_target(q_target, q_context) ==
    IF q_target = None THEN q_context ELSE q_target[1]

\* A plausible slip: the log-likelihood logged without its sign turned
make_logging_output_signed(loss, ll, kl, smp, sample_size) ==
    [loss |-> loss, ll |-> ll, kl |-> kl,
     ntokens |-> smp.ntokens, nsentences |-> smp.nsentences,
     sample_size |-> sample_size]

\* the logging_output dict of forward
make_logging_output(loss, ll, kl, smp, sample_size) ==
    [loss |-> loss, ll |-> QNeg(ll), kl |-> kl,
     ntokens |-> smp.ntokens, nsentences |-> smp.nsentences,
     sample_size |-> sample_size]

forward(m, smp) ==
    LET sample_size == smp.nsentences
        y_target == smp.target
        q_context == m.q_context
        q_target == resolve_q_target(m.q_target, q_context)
        c == compute_loss(m.p_y_pred, y_target, q_target, q_context)
        loss == QAdd(QNeg(c.ll), c.kl)
    IN  [status |-> "returned", loss |-> loss, sample_size |-> sample_size,
         logging_output |-> make_logging_output(loss, c.ll, c.kl, smp, sample_size)]

\* dict.get(key, default)
get(log, key, default) == IF key \in DOMAIN log THEN log[key] ELSE default

ROUND_DIGITS == 3

\* metrics.log_scalar(name, value, weight, round=3)
log_scalar(name, value, weight) ==
    [name |-> name, value |-> value, weight |-> weight, round |-> ROUND_DIGITS]

\* A plausible slip: the kl sum read from the 'll' field
reduce_metrics_copied_key(logs) ==
    LET loss_sum == QSum([i \in 1..Len(logs) |-> get(logs[i], "loss", QZero)])
        ll_sum == QSum([i \in 1..Len(logs) |-> get(logs[i], "ll", QZero)])
        kl_sum == QSum([i \in 1..Len(logs) |-> get(logs[i], "ll", QZero)])
        sample_size == IntSum([i \in 1..Len(logs) |-> get(logs[i], "sample_size", 0)])
    IN  IF sample_size = 0
        THEN [status |-> "division_by_zero", calls |-> <<>>]
        ELSE [status |-> "logged",
              calls |-> << log_scalar("loss", QDivLn2(QDivInt(loss_sum, sample_size)), sample_size),
                           log_scalar("ll", QDivLn2(QDivInt(ll_sum, sample_size)), sample_size),
                           log_scalar("kl", QDivLn2(QDivInt(kl_sum, sample_size)), sample_size) >>]

\* A plausible slip: the sample size of the first record instead of the sum
reduce_metrics_first_size(logs) ==
    LET loss_sum == QSum([i \in 1..Len(logs) |-> get(logs[i], "loss", QZero)])
        ll_sum == QSum([i \in 1..Len(logs) |-> get(logs[i], "ll", QZero)])
        kl_sum == QSum([i \in 1..Len(logs) |-> get(logs[i], "kl", QZero)])
        sample_size == IF logs = <<>> THEN 0 ELSE get(logs[1], "sample_size", 0)
    IN  IF sample_size = 0
        THEN [status |-> "division_by_zero", calls |-> <<>>]
        ELSE [status |-> "logged",
              calls |-> << log_scalar("loss", QDivLn2(QDivInt(loss_sum, sample_size)), sample_size),
                           log_scalar("ll", QDivLn2(QDivInt(ll_sum, sample_size)), sample_size),
                           log_scalar("kl", QDivLn2(QDivInt(kl_sum, sample_size)), sample_size) >>]

\* reduce_metrics(logging_outputs): the log_scalar calls it makes.  With a zero
\* total sample_size the first division has no value (Python numbers raise
\* ZeroDivisionError, tensors give inf or nan): no scalar is modelled then.
reduce_metrics(logs) ==
    LET loss_sum == QSum([i \in 1..Len(logs) |-> get(logs[i], "loss", QZero)])
        ll_sum == QSum([i \in 1..Len(logs) |-> get(logs[i], "ll", QZero)])
        kl_sum == QSum([i \in 1..Len(logs) |-> get(logs[i], "kl", QZero)])
        sample_size == IntSum([i \in 1..Len(logs) |-> get(logs[i], "sample_size", 0)])
    IN  IF sample_size = 0
        THEN [status |-> "division_by_zero", calls |-> <<>>]
        ELSE [status |-> "logged",
              calls |-> << log_scalar("loss", QDivLn2(QDivInt(loss_sum, sample_size)), sample_size),
                           log_scalar("ll", QDivLn2(QDivInt(ll_sum, sample_size)), sample_size),
                           log_scalar("kl", QDivLn2(QDivInt(kl_sum, sample_size)), sample_size) >>]

-----------------------------------------------------------------------------
(* Encoders: tensors are modelled by their shapes *)

RECURSIVE Prod(_)
Prod(s) == IF s = <<>> THEN 1 ELSE Head(s) * Prod(Tail(s))

Front(s) == SubSeq(s, 1, Len(s) - 1)
Last(s) == s[Len(s)]

Returned(shape) == [status |-> "returned", shape |-> shape]
\* an exception, with the place that raised it (and its index in a Sequential)
Raised(where, index) == [status |-> "raised", at |-> where, index |-> index]

\* An rs_dim argument: an int n is [tuple |-> FALSE, dims |-> <<n>>]
IntDim(n) == [tuple |-> FALSE, dims |-> <<n>>]
TupleDim(t) == [tuple |-> TRUE, dims |-> t]

\* Encoder.__init__: self.rs_dim
Encoder_init(rs_dim) == IF rs_dim.tuple THEN rs_dim.dims ELSE rs_dim.dims \o <<1>>

Linear(in_features, out_features) ==
    [layer |-> "Linear", in_features |-> in_features, out_features |-> out_features]
ReLU == [layer |-> "ReLU"]
\* util.ReshapeLast: the last axis, of size product(shape), becomes the axes of shape
ReshapeLast(shape) == [layer |-> "ReshapeLast", shape |-> shape]
ReshapeLast_forward(target, shape) ==
    IF Prod(target) = Last(shape)
    THEN Returned(Front(shape) \o target)
    ELSE Raised("ReshapeLast", 0)

\* One module applied to a tensor of the given shape
Apply(layer, shape) ==
    CASE layer.layer = "Linear" ->
            IF Last(shape) = layer.in_features
            THEN Returned(Front(shape) \o <<layer.out_features>>)
            ELSE Raised("Linear", 0)
      [] layer.layer = "ReLU" -> Returned(shape)
      [] layer.layer = "ReshapeLast" -> ReshapeLast_forward(layer.shape, shape)

\* nn.Sequential: the modules in order, from the i-th on
RECURSIVE Sequential(_, _, _)
Sequential(layers, i, shape) ==
    IF i > Len(layers) THEN Returned(shape)
    ELSE LET out == Apply(layers[i], shape)
         IN  IF out.status = "raised" THEN Raised(out.at, i)
             ELSE Sequential(layers, i + 1, out.shape)

\* torch.cat((x, y), dim): every other dimension must agree
cat(x, y, dim) ==
    IF /\ Len(x) = Len(y)
       /\ dim \in 1..Len(x)
       /\ \A i \in 1..Len(x) : i # dim => x[i] = y[i]
    THEN Returned([i \in 1..Len(x) |-> IF i = dim THEN x[i] + y[i] ELSE x[i]])
    ELSE Raised("cat", 0)

MLPEncoder_init(x_dim, y_dim, rs_dim, h_dim) ==
    LET output_shape == Encoder_init(rs_dim)
        output_size == Prod(output_shape)
    IN  [status |-> "constructed", kind |-> "MLPEncoder",
         x_dim |-> x_dim, y_dim |-> y_dim, rs_dim |-> output_shape,
         input_to_rs |-> << Linear(x_dim + y_dim, h_dim), ReLU,
                            Linear(h_dim, h_dim), ReLU,
                            Linear(h_dim, output_size),
                            ReshapeLast(output_shape) >>]

\* A plausible slip: the concatenation along the point axis
MLPEncoder_forward_points(self, x, y) ==
    LET input == cat(x, y, 2)
    IN  IF input.status = "raised" THEN input
        ELSE Sequential(self.input_to_rs, 1, input.shape)

\* dim=2 of the source counts from 0: the third axis
MLPEncoder_forward(self, x, y) ==
    LET input == cat(x, y, 3)
    IN  IF input.status = "raised" THEN input
        ELSE Sequential(self.input_to_rs, 1, input.shape)

\* nn.MultiheadAttention(embed_dim, num_heads): head_dim = embed_dim // num_heads,
\* and head_dim * num_heads must be embed_dim
MultiheadAttention(embed_dim, num_heads) ==
    IF (embed_dim \div num_heads) * num_heads = embed_dim
    THEN [status |-> "constructed", embed_dim |-> embed_dim, num_heads |-> num_heads]
    ELSE Raised("MultiheadAttention", 0)

\* A plausible slip: attention over an embedding of parameter_dim = rs_dim[0]
AttentionEncoder_init_narrow(x_dim, y_dim, rs_dim, h_dim) ==
    LET self_rs_dim == Encoder_init(rs_dim)
        output_size == Prod(self_rs_dim)
    IN  IF Len(self_rs_dim) < 2 THEN Raised("rs_dim[1]", 0)
        ELSE LET n_attn_heads == self_rs_dim[2]
                 attn == MultiheadAttention(self_rs_dim[1], n_attn_heads)
             IN  IF attn.status = "raised" THEN attn
                 ELSE [status |-> "constructed", kind |-> "AttentionEncoder",
                       x_dim |-> x_dim, y_dim |-> y_dim, rs_dim |-> self_rs_dim,
                       batch_mlp |-> << Linear(x_dim + y_dim, h_dim), ReLU,
                                        Linear(h_dim, h_dim), ReLU,
                                        Linear(h_dim, self_rs_dim[1]) >>,
                       attn |-> attn,
                       shaper |-> ReshapeLast(self_rs_dim)]

AttentionEncoder_init(x_dim, y_dim, rs_dim, h_dim) ==
    LET self_rs_dim == Encoder_init(rs_dim)
        output_size == Prod(self_rs_dim)
    IN  IF Len(self_rs_dim) < 2 THEN Raised("rs_dim[1]", 0)
        ELSE LET n_attn_heads == self_rs_dim[2]
                 attn == MultiheadAttention(output_size, n_attn_heads)
             IN  IF attn.status = "raised" THEN attn
                 ELSE [status |-> "constructed", kind |-> "AttentionEncoder",
                       x_dim |-> x_dim, y_dim |-> y_dim, rs_dim |-> self_rs_dim,
                       batch_mlp |-> << Linear(x_dim + y_dim, h_dim), ReLU,
                                        Linear(h_dim, h_dim), ReLU,
                                        Linear(h_dim, output_size) >>,
                       attn |-> attn,
                       shaper |-> ReshapeLast(self_rs_dim)]

-----------------------------------------------------------------------------
(* Inputs *)

N0 == Normal(0, 0)
N1 == Normal(0, 1)
N2 == Normal(1, 0)

\* One target position: the logits over three classes and the target class
PosA == [logits |-> <<1, 0, 0>>, y |-> 1]
PosB == [logits |-> <<2, 2, 3>>, y |-> 2]

TargetCounts == {1, 2}
LatentDims == {1, 2}

\* Rows of T target positions
PredRows(T) == IF T = 1 THEN {<<PosA>>, <<PosB>>} ELSE {<<PosA, PosB>>, <<PosB, PosB>>}

\* Rows of r_dim latents: the target's row t and the context's row c
LatentPairs(R) ==
    IF R = 1
    THEN {[t |-> <<N0>>, c |-> <<N0>>], [t |-> <<N0>>, c |-> <<N1>>],
          [t |-> <<N1>>, c |-> <<N0>>], [t |-> <<N2>>, c |-> <<N0>>]}
    ELSE {[t |-> <<N0, N1>>, c |-> <<N0, N1>>], [t |-> <<N0, N2>>, c |-> <<N1, N0>>],
          [t |-> <<N1, N1>>, c |-> <<N0, N2>>]}

\* The call of forward on a batch of B rows; a sample declares its sentence
\* and token counts as the batch has them.
MakeInput(B, T, rows, withTarget) ==
    [model_out |->
        [p_y_pred |-> [b \in 1..B |-> [t \in 1..T |-> rows[b].pred[t].logits]],
         q_context |-> [b \in 1..B |-> rows[b].lat.c],
         q_target |-> IF withTarget THEN Some([b \in 1..B |-> rows[b].lat.t]) ELSE None],
     sample |->
        [target |-> [b \in 1..B |-> [t \in 1..T |-> rows[b].pred[t].y]],
         ntokens |-> B * T, nsentences |-> B]]

InputsOf(Bs, Ts, Rs, pairs) ==
    UNION {UNION {UNION {
        {MakeInput(B, T, rows, w) :
            rows \in [1..B -> [pred : PredRows(T), lat : LatentPairs(R) \cap pairs]],
            w \in BOOLEAN}
        : R \in Rs} : T \in Ts} : B \in Bs}

AllPairs == LatentPairs(1) \cup LatentPairs(2)
TrainPairs == {[t |-> <<N0>>, c |-> <<N0>>], [t |-> <<N0>>, c |-> <<N1>>]}
ForwardInputs == InputsOf(1..MaxBatch, TargetCounts, LatentDims, AllPairs)
\* the two batch sizes of the split scenario
TrainBatches == {2, 3}
TrainInputs == InputsOf(TrainBatches, {1}, {1}, TrainPairs)

\* Logging records handed to reduce_metrics: any mapping may come in
Nats(n) == Qty(RZero, RZero, RInt(n))
KL01 == kl_normal_normal(N0, N1)
AllKeys == {"loss", "ll", "kl", "ntokens", "nsentences", "sample_size"}
KeySets == {AllKeys, AllKeys \ {"kl"}, {"loss", "ll", "kl"}}
FullLogs ==
    {[loss |-> QAdd(m[1], m[2]), ll |-> m[1], kl |-> m[2],
      ntokens |-> 2 * n, nsentences |-> n, sample_size |-> n] :
        n \in 1..MaxBatch, m \in {<<Nats(1), QZero>>, <<Nats(3), KL01>>}}
LogRecords == {[k \in K |-> r[k]] : r \in FullLogs, K \in KeySets}

RECURSIVE SeqsUpTo(_, _)
SeqsUpTo(S, n) ==
    IF n = 0 THEN {<<>>}
    ELSE LET shorter == SeqsUpTo(S, n - 1)
         IN  shorter \cup {Append(s, x) : s \in {q \in shorter : Len(q) = n - 1}, x \in S}

-----------------------------------------------------------------------------
(* The training pipeline: forward passes whose logging records the driver *)
(* collects, then one reduction over the collected records                 *)

Init ==
    /\ model_out = NoResult
    /\ sample = NoResult
    /\ result = NoResult
    /\ logging_outputs = <<>>
    /\ scalars = NoResult
    /\ encoder = NoResult
    /\ enc_call = NoResult

\* criterion(model, sample); the driver keeps the logging record
TrainStep ==
    /\ scalars = NoResult
    /\ Len(logging_outputs) < MaxLogs
    /\ \E inp \in TrainInputs :
          /\ result' = forward(inp.model_out, inp.sample)
          /\ logging_outputs' = Append(logging_outputs, result'.logging_output)
    /\ UNCHANGED <<model_out, sample, scalars, encoder, enc_call>>

\* NeuralProcessCriterion.reduce_metrics(logging_outputs)
ReduceMetrics ==
    /\ scalars = NoResult
    /\ scalars' = reduce_metrics(logging_outputs)
    /\ UNCHANGED <<model_out, sample, result, logging_outputs, encoder, enc_call>>

Next == TrainStep \/ ReduceMetrics

Spec == Init /\ [][Next]_vars

-----------------------------------------------------------------------------
(* forward as a function of its inputs *)

InitForward ==
    /\ \E inp \in ForwardInputs : model_out = inp.model_out /\ sample = inp.sample
    /\ result = NoResult
    /\ logging_outputs = <<>>
    /\ scalars = NoResult
    /\ encoder = NoResult
    /\ enc_call = NoResult

\* NeuralProcessCriterion.forward(model, sample)
Forward ==
    /\ result = NoResult
    /\ result' = forward(model_out, sample)
    /\ UNCHANGED <<model_out, sample, logging_outputs, scalars, encoder, enc_call>>

NextForward == Forward

SpecForward == InitForward /\ [][NextForward]_vars

-----------------------------------------------------------------------------
(* reduce_metrics as a function of the records it is given *)

InitReduce ==
    /\ model_out = NoResult
    /\ sample = NoResult
    /\ result = NoResult
    /\ logging_outputs \in SeqsUpTo(LogRecords, MaxLogs)
    /\ scalars = NoResult
    /\ encoder = NoResult
    /\ enc_call = NoResult

NextReduce == ReduceMetrics

SpecReduce == InitReduce /\ [][NextReduce]_vars

-----------------------------------------------------------------------------
(* Encoders: construction, then one forward call of an MLP encoder *)

FeatureDims == 1..MaxDim
HiddenDims == {MaxDim + 1}
RsDims ==
    {IntDim(n) : n \in (1..MaxDim) \cup {8}}
    \cup {TupleDim(<<8>>)}
    \cup {TupleDim(<<p, h>>) : p \in 1..(MaxDim + 1), h \in 1..(MaxDim + 1)}
BatchSizes == {1, 4}
PointCounts == {1, 5}

ConstructorArgs == [x_dim : FeatureDims, y_dim : FeatureDims, rs_dim : RsDims, h_dim : HiddenDims]

\* MLPEncoder(x_dim, y_dim, rs_dim, h_dim)
ConstructMLP ==
    /\ encoder = NoResult
    /\ \E a \in ConstructorArgs :
          encoder' = [class |-> "MLPEncoder", args |-> a,
                      self |-> MLPEncoder_init(a.x_dim, a.y_dim, a.rs_dim, a.h_dim)]
    /\ UNCHANGED <<model_out, sample, result, logging_outputs, scalars, enc_call>>

\* AttentionEncoder(x_dim, y_dim, rs_dim, h_dim)
ConstructAttention ==
    /\ encoder = NoResult
    /\ \E a \in ConstructorArgs :
          encoder' = [class |-> "AttentionEncoder", args |-> a,
                      self |-> AttentionEncoder_init(a.x_dim, a.y_dim, a.rs_dim, a.h_dim)]
    /\ UNCHANGED <<model_out, sample, result, logging_outputs, scalars, enc_call>>

\* MLPEncoder.forward(x, y) on tensors of three axes
ForwardMLP ==
    /\ encoder # NoResult
    /\ encoder.class = "MLPEncoder"
    /\ encoder.self.status = "constructed"
    /\ enc_call = NoResult
    /\ \E b \in BatchSizes, n \in PointCounts, ny \in PointCounts,
          xf \in FeatureDims, yf \in FeatureDims :
          LET x == <<b, n, xf>>
              y == <<b, ny, yf>>
          IN  enc_call' = [x |-> x, y |-> y, out |-> MLPEncoder_forward(encoder.self, x, y)]
    /\ UNCHANGED <<model_out, sample, result, logging_outputs, scalars, encoder>>

NextEncoder == ConstructMLP \/ ConstructAttention \/ ForwardMLP

SpecEncoder == Init /\ [][NextEncoder]_vars

-----------------------------------------------------------------------------
(* Claims about forward, under SpecForward *)

\* The log-likelihood, straight from its definition: the sum over all
\* positions of logit[y] - log2(sum of the class weights), over the batch size,
\* in units of ln 2
RefLogLikelihood(p, y) ==
    LET B == Len(p)
        perRow == [b \in 1..B |->
                     IntSum([t \in 1..Len(p[b]) |->
                        p[b][t][y[b][t]]
                        - Log2(IntSum([j \in 1..Len(p[b][t]) |-> Pow(2, p[b][t][j])]))])]
    IN  Qty(RZero, RZero, Rat(IntSum(perRow), B))

\* The sum of the elementwise divergences of p from q
KLTotal(p, q) ==
    QSum([b \in 1..Len(p) |->
            QSum([r \in 1..Len(p[b]) |-> kl_normal_normal(p[b][r], q[b][r])])])

Called == result.status = "returned"

\* C1: when the model returns no q_target, forward returns the same triple as
\* when it returns q_target = q_context; kl is 0 and loss is -log_likelihood.
C1_AbsentTargetIsContext ==
    (Called /\ model_out.q_target = None) =>
        /\ result = forward([model_out EXCEPT !.q_target = Some(model_out.q_context)], sample)
        /\ result.logging_output.kl = QZero
        /\ result.loss = QNeg(RefLogLikelihood(model_out.p_y_pred, sample.target))

C1_Witness ==
    /\ Called
    /\ model_out.q_target = None
    /\ Len(model_out.q_context) >= 2
    /\ \E b \in 1..Len(model_out.q_context) : model_out.q_context[b][1] # Normal(0, 0)

\* C2: the logging record of forward: 'll' is the negated log-likelihood,
\* 'loss' = 'll' + 'kl' = the returned loss, 'sample_size' and 'nsentences'
\* are sample['nsentences'], 'ntokens' is sample['ntokens'], and the returned
\* sample_size is sample['nsentences'].
C2_LoggingRecord ==
    Called =>
        LET lo == result.logging_output
        IN  /\ DOMAIN lo = {"loss", "ll", "kl", "ntokens", "nsentences", "sample_size"}
            /\ lo.ll = QNeg(RefLogLikelihood(model_out.p_y_pred, sample.target))
            /\ lo.loss = QAdd(lo.ll, lo.kl)
            /\ lo.loss = result.loss
            /\ lo.sample_size = sample.nsentences
            /\ lo.nsentences = sample.nsentences
            /\ lo.ntokens = sample.ntokens
            /\ result.sample_size = sample.nsentences

C2_Witness ==
    /\ Called
    /\ result.logging_output.kl # QZero
    /\ sample.nsentences >= 2
    /\ sample.ntokens # sample.nsentences

-----------------------------------------------------------------------------
(* Claims about reduce_metrics, under SpecReduce *)

\* The sum of one field over the records, a record without it adding nothing
RECURSIVE FieldSum(_, _)
FieldSum(logs, key) ==
    IF logs = <<>> THEN QZero
    ELSE LET rest == FieldSum(Front(logs), key)
         IN  IF key \in DOMAIN Last(logs) THEN QAdd(rest, Last(logs)[key]) ELSE rest

RECURSIVE TotalSize(_)
TotalSize(logs) ==
    IF logs = <<>> THEN 0
    ELSE TotalSize(Front(logs))
         + (IF "sample_size" \in DOMAIN Last(logs) THEN Last(logs).sample_size ELSE 0)

Reduced == scalars # NoResult

\* the value reduce_metrics logged under a name
Logged(name) == (CHOOSE c \in {scalars.calls[i] : i \in 1..Len(scalars.calls)} : c.name = name).value

\* C3: with a non-zero total sample_size, reduce_metrics emits exactly the
\* three scalars 'loss', 'll', 'kl', each the sum of its field (0 for a record
\* without it) divided by the summed sample_size and by ln 2, with the summed
\* sample_size as weight and rounding to 3 digits.
C3_ReducedScalars ==
    (Reduced /\ TotalSize(logging_outputs) # 0) =>
        /\ scalars.status = "logged"
        /\ Len(scalars.calls) = 3
        /\ {scalars.calls[i].name : i \in 1..3} = {"loss", "ll", "kl"}
        /\ \A i \in 1..3 :
              LET c == scalars.calls[i]
              IN  /\ c.value = QDivLn2(QDivInt(FieldSum(logging_outputs, c.name),
                                               TotalSize(logging_outputs)))
                  /\ c.weight = TotalSize(logging_outputs)
                  /\ c.round = 3

C3_Witness ==
    /\ Reduced
    /\ Len(logging_outputs) = 2
    /\ "kl" \notin DOMAIN logging_outputs[1]
    /\ "kl" \in DOMAIN logging_outputs[2]
    /\ logging_outputs[2].kl # QZero
    /\ TotalSize(logging_outputs) >= 3
    /\ scalars.status = "logged"

\* C4 (as claimed): reducing a single record of any positive sample_size
\* reports exactly that record's loss, ll and kl divided by ln 2.
C4_SingleRecordExact ==
    (/\ Reduced
     /\ Len(logging_outputs) = 1
     /\ {"loss", "ll", "kl", "sample_size"} \subseteq DOMAIN logging_outputs[1]
     /\ logging_outputs[1].sample_size > 0) =>
        /\ scalars.status = "logged"
        /\ Logged("loss") = QDivLn2(logging_outputs[1].loss)
        /\ Logged("ll") = QDivLn2(logging_outputs[1].ll)
        /\ Logged("kl") = QDivLn2(logging_outputs[1].kl)

Permuted(logs, p) == [i \in 1..Len(logs) |-> logs[p[i]]]

\* C10: for every order of the records (non-zero total sample_size) the three
\* scalars and their weights are the same, and the reduction modifies no
\* logging record.
C10_OrderIndependent ==
    /\ [](scalars.status = "logged" =>
            \A p \in Permutations(1..Len(logging_outputs)) :
                reduce_metrics(Permuted(logging_outputs, p)) = scalars)
    /\ [][logging_outputs' = logging_outputs]_vars

C10_Witness ==
    /\ scalars.status = "logged"
    /\ Len(logging_outputs) >= 2
    /\ logging_outputs[1] # logging_outputs[2]
    /\ get(logging_outputs[1], "sample_size", 0) # get(logging_outputs[2], "sample_size", 0)

-----------------------------------------------------------------------------
(* Claims about forward followed by reduction, under Spec *)

\* C5 (as claimed): two records of forward with sample_size 2 and 3 and the
\* same batch-averaged loss L reduce to that same per-sample loss, L / ln 2.
C5_SplitIndependent ==
    (/\ Reduced
     /\ Len(logging_outputs) = 2
     /\ {logging_outputs[1].sample_size, logging_outputs[2].sample_size} = {2, 3}
     /\ logging_outputs[1].loss = logging_outputs[2].loss) =>
        /\ scalars.status = "logged"
        /\ Logged("loss") = QDivLn2(logging_outputs[1].loss)

-----------------------------------------------------------------------------
(* Claims about the encoders, under SpecEncoder *)

IsMLP == encoder # NoResult /\ encoder.class = "MLPEncoder" /\ encoder.self.status = "constructed"
ForwardDone == enc_call # NoResult

\* y agrees with x on batch and point count
SamePoints == enc_call.x[1] = enc_call.y[1] /\ enc_call.x[2] = enc_call.y[2]

\* C6 (as claimed): an MLP encoder given x of shape (batch, n, x_dim) and y of
\* shape (batch, n, y_dim) returns shape (batch, n, *rs_dim) for the rs_dim the
\* caller passed; with the integer rs_dim = 8 that is (batch, n, 8).
C6_OutputShape ==
    (/\ IsMLP
     /\ ForwardDone
     /\ SamePoints
     /\ enc_call.x[3] = encoder.args.x_dim
     /\ enc_call.y[3] = encoder.args.y_dim) =>
        /\ enc_call.out.status = "returned"
        /\ enc_call.out.shape = <<enc_call.x[1], enc_call.x[2]>> \o encoder.args.rs_dim.dims

IsAttentionCall(p, h) ==
    /\ encoder # NoResult
    /\ encoder.class = "AttentionEncoder"
    /\ encoder.args.rs_dim = TupleDim(<<p, h>>)

\* C7 (as claimed): AttentionEncoder with rs_dim = (parameter_dim, num_heads),
\* parameter_dim not divisible by num_heads, fails at construction.
C7_NonDivisibleFails ==
    \A p \in 1..(MaxDim + 1), h \in 1..(MaxDim + 1) :
        (IsAttentionCall(p, h) /\ p % h # 0) => encoder.self.status = "raised"

\* C7 (amended): AttentionEncoder with rs_dim = (parameter_dim, num_heads),
\* both positive, is constructed whether or not parameter_dim is divisible by
\* num_heads: the attention runs over parameter_dim * num_heads features.
C7_ProductEmbedding ==
    \A p \in 1..(MaxDim + 1), h \in 1..(MaxDim + 1) :
        IsAttentionCall(p, h) =>
            /\ encoder.self.status = "constructed"
            /\ encoder.self.attn.embed_dim = p * h
            /\ encoder.self.attn.num_heads = h
            /\ Last(encoder.self.batch_mlp).out_features = p * h

C7_Witness ==
    /\ IsAttentionCall(3, 2)
    /\ encoder.self.status = "constructed"

MismatchedY ==
    /\ IsMLP
    /\ ForwardDone
    /\ SamePoints
    /\ enc_call.x[3] = encoder.args.x_dim
    /\ enc_call.y[3] # encoder.args.y_dim

\* C8 (as claimed): a y whose feature size differs from y_dim makes forward
\* raise a shape error at the concatenation of x and y.
C8_RaisedAtCat ==
    MismatchedY => (enc_call.out.status = "raised" /\ enc_call.out.at = "cat")

\* C8 (amended): a y whose feature size differs from y_dim makes forward raise
\* a shape error, raised by the first linear layer of the feed-forward
\* network; the concatenation of x and y succeeds.
C8_RaisedAtFirstLinear ==
    MismatchedY =>
        /\ enc_call.out.status = "raised"
        /\ enc_call.out.at = "Linear"
        /\ enc_call.out.index = 1
        /\ cat(enc_call.x, enc_call.y, 3).status = "returned"
        /\ Last(cat(enc_call.x, enc_call.y, 3).shape) # encoder.self.input_to_rs[1].in_features

C8_Witness ==
    /\ MismatchedY
    /\ encoder.args.y_dim = 1
    /\ enc_call.y[3] = 2
    /\ enc_call.out.status = "raised"

====
